---------------------------- MODULE Spec2Model ----------------------------
(***************************************************************************)
(* Muddle, gui.py: the Moodle course tree.  A MoodleFetcher thread walks   *)
(* the remote catalog and emits loadedItem(type, payload) signals; the     *)
(* MoodleTreeWidget, on the UI thread, rebuilds the tree from them with    *)
(* one remembered item (lastInsertedItem), and sorts when the thread's     *)
(* finished signal arrives.                                                *)
(*                                                                         *)
(* Payloads are the JSON objects of the REST API: functions from key       *)
(* strings to values, so that `"id" in course` is "id" \in DOMAIN course.  *)
(* Tree items are numbered 1, 2, ... in creation order; 0 stands for None  *)
(* (no parent, no last inserted item, no worker).                          *)
(***************************************************************************)
EXTENDS Integers, Sequences, FiniteSets, TLC

VARIABLES
    items,            \* the MoodleItem objects created so far
    topLevel,         \* the tree's top-level items, in display order
    lastInsertedItem, \* MoodleTreeWidget.lastInsertedItem (0: None)
    sortingEnabled,   \* QTreeView.isSortingEnabled()
    worker,           \* MoodleTreeWidget.worker (0: None), an index of workers
    workers,          \* every MoodleFetcher thread started, in creation order
    queue,            \* the UI thread's event queue: queued signal deliveries
    alive,            \* FALSE once an exception left a slot and aborted the process
    err,              \* the exception the last slot invocation raised ("" if none)
    emitted,          \* history: every loadedItem emission, in emission order
    processed,        \* history: every event handed to onWorkerLoadedItem
    droppedIdle       \* history: a refresh request was dropped while no thread ran

vars == <<items, topLevel, lastInsertedItem, sortingEnabled, worker, workers,
          queue, alive, err, emitted, processed, droppedIdle>>

uiVars == <<items, topLevel, lastInsertedItem, sortingEnabled>>

-----------------------------------------------------------------------------
(* Bounds of the model.                                                    *)

\* Threads a behaviour may start (refresh requests that start a run).
MaxRuns == 2
\* Records (courses, sections, modules and contents together) the API
\* returns to the threads of one behaviour, at most.
MaxRecords == 4
\* Records of a whole catalog handed to the Reconstructor on its own.
MaxCatalog == 5
\* The same, for the catalogs in which every subtype tag occurs.
MaxTagged == 4
\* The same, for the catalogs whose check boxes are clicked.
MaxSelect == 6
\* Records the API returns to a single fetcher thread on its own.
MaxFetch == 5
\* Records of the catalogs of two overlapping runs: the first, the second.
MaxFirst == 4
MaxSecond == 2
\* Records of a catalog some of whose records lack a key.
MaxMalformed == 4
\* Records the API returns to the thread of a run followed to its end.
MaxLive == 4

-----------------------------------------------------------------------------
(* MoodleItem.Type: an IntEnum, compared by value in the parent climb.     *)

ROOT == 0
COURSE == 1
SECTION == 2
MODULE_ == 3   \* Type.MODULE (MODULE is a reserved word of TLA+)
FORUM == 4
RESOURCE == 5
FOLDER == 6
ATTENDANCE == 7
LABEL == 8
QUIZ == 9
CONTENT == 10
FILE == 11
URL == 12

None == 0

\* The kinds that specialise MODULE and CONTENT.

-----------------------------------------------------------------------------
(* Sequences.                                                              *)

Front(s) == SubSeq(s, 1, Len(s) - 1)
Last(s) == s[Len(s)]
IsPrefix(s, t) == Len(s) <= Len(t) /\ SubSeq(t, 1, Len(s)) = s

RECURSIVE SeqsUpTo(_, _)
SeqsUpTo(S, n) ==
    IF n = 0 THEN {<<>>}
    ELSE LET shorter == SeqsUpTo(S, n - 1)
         IN  shorter \cup {Append(s, x) : s \in {t \in shorter : Len(t) = n - 1}, x \in S}

-----------------------------------------------------------------------------
(* Titles.  html.unescape decodes character references; Qt compares the    *)
(* decoded texts (QString::localeAwareCompare).  The titles of the model   *)
(* are "a", "b" and "&#122;", the last of which decodes to "z": before     *)
(* decoding it sorts first (punctuation), after decoding last.             *)

\* The title as written, character references left undecoded.
HtmlUnescapeRaw(s) == s

HtmlUnescape(s) ==
    CASE s = "&#122;" -> "z"
      [] s = "&#97;"  -> "a"
      [] s = "&amp;"  -> "&"
      [] OTHER        -> s

\* The collation key of a display text.
TextKey(t) ==
    CASE t = "&"      -> 0
      [] t = "&#122;" -> 1
      [] t = "&#97;"  -> 2
      [] t = "&amp;"  -> 3
      [] t = "a"      -> 4
      [] t = "b"      -> 5
      [] t = "z"      -> 6
      [] OTHER        -> 7

-----------------------------------------------------------------------------
(* The tree: QTreeWidgetItem objects and their order.                      *)

ItemIds == 1..Len(items)

\* QTreeWidgetItem.parent(): None for a top-level item.
ParentOf(its, i) == its[i].parent

\* The children of item x in display order; x = None is the invisible root.
Kids(its, top, x) == IF x = None THEN top ELSE its[x].children

\* MoodleItem.__init__ and setupQt: the metadata bag, the decoded text, and
\* the check box of the selectable kinds (unchecked at first); the other
\* kinds lose ItemIsUserCheckable and carry no check state data at all.
MoodleItem(parent, nodetype, kwargs) ==
    LET selectable == nodetype \in {FILE, FOLDER, RESOURCE}
    IN  [metadata      |-> [type |-> nodetype] @@ kwargs,
         parent        |-> parent,
         children      |-> <<>>,
         text          |-> HtmlUnescape(kwargs.title),
         userCheckable |-> selectable,
         autoTristate  |-> selectable,
         checkState    |-> IF selectable THEN "Unchecked" ELSE "NoData",
         src           |-> 0]

\* QTreeWidgetItem(parent): the new item, numbered Len(its) + 1, is appended
\* to its parent's children.
AppendChild(its, parent, new) ==
    LET n == Len(its) + 1
        withNew == Append(its, new)
    IN  IF parent = None THEN withNew
        ELSE [withNew EXCEPT ![parent].children = Append(@, n)]

\* x put into a sequence sorted by text, after the items that do not sort
\* after it (the sort is stable).
InsertByText(its, sorted, x) ==
    LET k == Cardinality({j \in 1..Len(sorted) :
                            TextKey(its[sorted[j]].text) <= TextKey(its[x].text)})
    IN  SubSeq(sorted, 1, k) \o <<x>> \o SubSeq(sorted, k + 1, Len(sorted))

RECURSIVE SortByText(_, _)
SortByText(its, s) ==
    IF s = <<>> THEN <<>>
    ELSE InsertByText(its, SortByText(its, Front(s)), Last(s))

\* A sort that leaves every children list as it is.
SortTopLevelOnly(its) == its

\* QTreeModel::sort: the root item's sortChildren with climb = true sorts
\* the children of every item.
SortChildren(its) ==
    [i \in 1..Len(its) |-> [its[i] EXCEPT !.children = SortByText(its, @)]]

\* A view with sorting enabled re-sorts after an insertion.
Resort(enabled, its) == IF enabled THEN SortChildren(its) ELSE its
ResortTop(enabled, its, top) == IF enabled THEN SortByText(its, top) ELSE top

-----------------------------------------------------------------------------
(* onWorkerLoadedItem.                                                     *)

\* The climb with a strict comparison, which stops at a sibling.
RECURSIVE ClimbStrict(_, _, _)
ClimbStrict(its, type, parent) ==
    IF type < its[parent].metadata.type /\ ParentOf(its, parent) # None
    THEN ClimbStrict(its, type, ParentOf(its, parent))
    ELSE parent

\* A climb of one step at most.
ClimbOnce(its, type, parent) ==
    IF type <= its[parent].metadata.type /\ ParentOf(its, parent) # None
    THEN ParentOf(its, parent)
    ELSE parent

\* while type <= parent.metadata.type and parent.parent(): parent = parent.parent()
RECURSIVE Climb(_, _, _)
Climb(its, type, parent) ==
    IF type <= its[parent].metadata.type /\ ParentOf(its, parent) # None
    THEN Climb(its, type, ParentOf(its, parent))
    ELSE parent

\* The moduleType dict without its "quiz" entry.
ModuleTypeNoQuiz(modname) ==
    CASE modname = "folder"     -> FOLDER
      [] modname = "resource"   -> RESOURCE
      [] modname = "forum"      -> FORUM
      [] modname = "attendance" -> ATTENDANCE
      [] modname = "label"      -> LABEL
      [] OTHER                  -> None

\* moduleType.get(modname): None when the key is not in the dict.
ModuleType(modname) ==
    CASE modname = "folder"     -> FOLDER
      [] modname = "resource"   -> RESOURCE
      [] modname = "forum"      -> FORUM
      [] modname = "attendance" -> ATTENDANCE
      [] modname = "label"      -> LABEL
      [] modname = "quiz"       -> QUIZ
      [] OTHER                  -> None

ContentType(type) ==
    CASE type = "url"  -> URL
      [] type = "file" -> FILE
      [] OTHER         -> None

\* `x or y`: y when x is None (or zero).
Or(x, y) == IF x = None THEN y ELSE x

\* The keys the constructor call of each kind reads from the payload.
RequiredKeys(type) ==
    CASE type = COURSE  -> {"id", "shortname"}
      [] type = SECTION -> {"id", "name"}
      [] type = MODULE_ -> {"modname", "id", "name"}
      [] type = CONTENT -> {"type", "filename", "fileurl"}
      [] OTHER          -> {}

\* The keyword arguments of the constructor call, and the resolved nodetype.
ItemKwargs(type, item) ==
    CASE type = COURSE  -> [id |-> item.id, title |-> item.shortname]
      [] type = CONTENT -> [title |-> item.filename, url |-> item.fileurl]
      [] OTHER          -> [id |-> item.id, title |-> item.name]

NodeType(type, item) ==
    CASE type = MODULE_ -> Or(ModuleType(item.modname), type)
      [] type = CONTENT -> Or(ContentType(item.type), type)
      [] OTHER          -> type

\* An exception that leaves the slot: PyQt5 from 5.5 on aborts the process
\* (qFatal), earlier versions print the traceback and carry on.  Nothing of
\* the tree changes.
Raise(e) ==
    /\ err' = e
    /\ alive' \in BOOLEAN
    /\ UNCHANGED uiVars

\* The slot, called with the event ev = [type, item, ...] that is the k-th
\* event handled.
onWorkerLoadedItem(ev, k) ==
    LET type == ev.type
        item == ev.item
    IN  IF type # COURSE /\ lastInsertedItem = None
        THEN Raise("AttributeError")    \* parent.metadata with parent = None
        ELSE IF ~(RequiredKeys(type) \subseteq DOMAIN item)
        THEN Raise("KeyError")
        ELSE LET parent == IF type = COURSE THEN None
                           ELSE Climb(items, type, lastInsertedItem)
                 new == [MoodleItem(parent, NodeType(type, item), ItemKwargs(type, item))
                            EXCEPT !.src = k]
                 n == Len(items) + 1
                 its == AppendChild(items, parent, new)
                 top == IF type = COURSE THEN Append(topLevel, n) ELSE topLevel
             IN  /\ items' = Resort(sortingEnabled, its)
                 /\ topLevel' = ResortTop(sortingEnabled, its, top)
                 /\ lastInsertedItem' = n
                 /\ err' = ""
                 /\ UNCHANGED <<sortingEnabled, alive>>

\* onWorkerDone: sortByColumn(0, Qt.AscendingOrder); setSortingEnabled(True).
onWorkerDone ==
    /\ items' = SortChildren(items)
    /\ topLevel' = SortByText(items, topLevel)
    /\ sortingEnabled' = TRUE
    /\ err' = ""
    /\ UNCHANGED <<lastInsertedItem, alive>>

-----------------------------------------------------------------------------
(* MoodleFetcher: the thread's position in the four nested loops of run.   *)

\* A thread just started: run has not yet called getCourses.
NewWorker ==
    [pc |-> "getCourses", finished |-> FALSE,
     courses |-> <<>>, ci |-> 0, sections |-> <<>>, si |-> 0,
     modules |-> <<>>, mi |-> 0, contents |-> <<>>, ki |-> 0,
     got |-> <<>>]   \* history: what getSections returned, per course

\* The JSON body of a request, whether it failed or not.
ListingOfBody(req) == req.json

\* getCourses and getSections: [] when the request is falsy, else its JSON.
ListingOf(req) == IF ~req.ok THEN <<>> ELSE req.json

\* The modules of a section, last first.
getModulesReversed(section) ==
    IF "modules" \in DOMAIN section
    THEN [j \in 1..Len(section.modules) |->
             section.modules[Len(section.modules) + 1 - j]]
    ELSE <<>>

getModules(section) ==
    IF "modules" \in DOMAIN section THEN section.modules ELSE <<>>

getContent(module) ==
    IF "contents" \in DOMAIN module THEN module.contents ELSE <<>>

\* The for loops: an exhausted inner loop hands over to the next element of
\* the loop around it; run returns when the course loop is exhausted.
RECURSIVE NextIteration(_)
NextIteration(st) ==
    CASE st.pc = "content" ->
            IF st.ki <= Len(st.contents) THEN st
            ELSE NextIteration([st EXCEPT !.pc = "module", !.mi = @ + 1,
                                          !.contents = <<>>, !.ki = 0])
      [] st.pc = "module" ->
            IF st.mi <= Len(st.modules) THEN st
            ELSE NextIteration([st EXCEPT !.pc = "section", !.si = @ + 1,
                                          !.modules = <<>>, !.mi = 0])
      [] st.pc = "section" ->
            IF st.si <= Len(st.sections) THEN st
            ELSE NextIteration([st EXCEPT !.pc = "course", !.ci = @ + 1,
                                          !.sections = <<>>, !.si = 0])
      [] st.pc = "course" ->
            IF st.ci <= Len(st.courses) THEN st
            ELSE [st EXCEPT !.pc = "return"]
      [] OTHER -> st

\* A queued delivery of loadedItem(type, item); run and path say which thread
\* emitted it and at which loop indices (history, not read by the slots).
LoadedItem(type, item, w, path) ==
    [sig |-> "loadedItem", type |-> type, item |-> item, run |-> w, path |-> path]

Finished(w) == [sig |-> "finished", run |-> w]

\* Queued connections: the signal's delivery is posted at the end of the UI
\* thread's event queue.
\* A delivery put at the front of the queue.
PostFirst(q, msg) == <<msg>> \o q

Post(q, msg) == Append(q, msg)

Emit(msg) ==
    /\ queue' = Post(queue, msg)
    /\ emitted' = Append(emitted, msg)

workerFrame == <<items, topLevel, lastInsertedItem, sortingEnabled, worker,
                 alive, err, processed, droppedIdle>>

\* coursesReq = self.api.core_enrol_get_users_courses(...)
GetCourses(w, req) ==
    /\ alive /\ workers[w].pc = "getCourses"
    /\ workers' = [workers EXCEPT ![w] =
            NextIteration([@ EXCEPT !.pc = "course", !.courses = ListingOf(req), !.ci = 1])]
    /\ UNCHANGED <<queue, emitted>>
    /\ UNCHANGED workerFrame

\* getSections(course): no request is made for a course without id.
getSections(course, req) ==
    IF "id" \notin DOMAIN course THEN <<>> ELSE ListingOf(req)

\* self.loadedItem.emit(MoodleItem.Type.COURSE, course), and then the listing
\* call of the section loop, getSections(course), which req answers.
EmitCourse(w, req) ==
    /\ alive /\ workers[w].pc = "course"
    /\ LET st == workers[w]
           course == st.courses[st.ci]
           sections == getSections(course, req)
       IN  /\ Emit(LoadedItem(COURSE, course, w, <<st.ci>>))
           /\ workers' = [workers EXCEPT ![w] =
                NextIteration([@ EXCEPT !.pc = "section", !.sections = sections,
                                        !.si = 1, !.got = Append(@, sections)])]
    /\ UNCHANGED workerFrame

\* self.loadedItem.emit(MoodleItem.Type.SECTION, section)
EmitSection(w) ==
    /\ alive /\ workers[w].pc = "section"
    /\ LET st == workers[w]
           section == st.sections[st.si]
       IN  /\ Emit(LoadedItem(SECTION, section, w, <<st.ci, st.si>>))
           /\ workers' = [workers EXCEPT ![w] =
                NextIteration([@ EXCEPT !.pc = "module", !.modules = getModules(section),
                                        !.mi = 1])]
    /\ UNCHANGED workerFrame

\* self.loadedItem.emit(MoodleItem.Type.MODULE, module)
EmitModule(w) ==
    /\ alive /\ workers[w].pc = "module"
    /\ LET st == workers[w]
           module == st.modules[st.mi]
       IN  /\ Emit(LoadedItem(MODULE_, module, w, <<st.ci, st.si, st.mi>>))
           /\ workers' = [workers EXCEPT ![w] =
                NextIteration([@ EXCEPT !.pc = "content", !.contents = getContent(module),
                                        !.ki = 1])]
    /\ UNCHANGED workerFrame

\* A thread that, emitting a CONTENT event, also resets the widget's last
\* inserted item.
EmitContentTouchingTree(w) ==
    /\ alive /\ workers[w].pc = "content"
    /\ LET st == workers[w]
       IN  /\ Emit(LoadedItem(CONTENT, st.contents[st.ki], w, <<st.ci, st.si, st.mi, st.ki>>))
           /\ workers' = [workers EXCEPT ![w] = NextIteration([@ EXCEPT !.ki = @ + 1])]
    /\ lastInsertedItem' = None
    /\ UNCHANGED <<items, topLevel, sortingEnabled, worker, alive, err, processed,
                   droppedIdle>>

\* self.loadedItem.emit(MoodleItem.Type.CONTENT, content)
EmitContent(w) ==
    /\ alive /\ workers[w].pc = "content"
    /\ LET st == workers[w]
       IN  /\ Emit(LoadedItem(CONTENT, st.contents[st.ki], w, <<st.ci, st.si, st.mi, st.ki>>))
           /\ workers' = [workers EXCEPT ![w] = NextIteration([@ EXCEPT !.ki = @ + 1])]
    /\ UNCHANGED workerFrame

\* run returns: the thread is finished and its finished signal is queued.
Finish(w) ==
    /\ alive /\ workers[w].pc = "return"
    /\ workers' = [workers EXCEPT ![w].pc = "done", ![w].finished = TRUE]
    /\ queue' = Post(queue, Finished(w))
    /\ UNCHANGED emitted
    /\ UNCHANGED workerFrame

-----------------------------------------------------------------------------
(* MoodleTreeWidget.refresh and the UI thread's event loop.                *)

isFinished(w) == workers[w].finished

Active == {w \in DOMAIN workers : ~workers[w].finished}

\* if not self.worker or not self.worker.isFinished():
StartsWorker == worker = None \/ ~isFinished(worker)

refresh ==
    /\ alive
    /\ IF StartsWorker
       THEN /\ Len(workers) < MaxRuns
            /\ workers' = Append(workers, NewWorker)
            /\ worker' = Len(workers) + 1
            /\ UNCHANGED droppedIdle
       ELSE \* log.debug("A worker is already running, not refreshing")
            /\ UNCHANGED <<workers, worker>>
            /\ droppedIdle' = (droppedIdle \/ Active = {})
    /\ UNCHANGED <<items, topLevel, lastInsertedItem, sortingEnabled, queue,
                   alive, err, emitted, processed>>

\* The event loop delivers the first queued loadedItem to onWorkerLoadedItem.
DeliverLoadedItem ==
    /\ alive /\ queue # <<>> /\ Head(queue).sig = "loadedItem"
    /\ queue' = Tail(queue)
    /\ processed' = Append(processed, Head(queue))
    /\ onWorkerLoadedItem(Head(queue), Len(processed) + 1)
    /\ UNCHANGED <<worker, workers, emitted, droppedIdle>>

\* The event loop delivers the first queued finished signal to onWorkerDone.
DeliverFinished ==
    /\ alive /\ queue # <<>> /\ Head(queue).sig = "finished"
    /\ queue' = Tail(queue)
    /\ onWorkerDone
    /\ UNCHANGED <<worker, workers, emitted, processed, droppedIdle>>

-----------------------------------------------------------------------------
(* Check boxes.  setupQt gives FILE, FOLDER and RESOURCE items the flags   *)
(* ItemIsUserCheckable | ItemIsAutoTristate and an unchecked box; what the *)
(* flags do is QTreeWidgetItem's: data(CheckStateRole), setData and        *)
(* childrenCheckState, and the delegate's click.                           *)

RECURSIVE CheckStateOf(_, _)
RECURSIVE ChildrenCheckState(_, _, _, _, _)

\* QTreeWidgetItem::childrenCheckState, from child k on: no state as soon as
\* a child has none, partially checked as soon as both states were seen.
ChildrenCheckState(its, kids, k, checkedChildren, uncheckedChildren) ==
    IF k > Len(kids)
    THEN IF uncheckedChildren THEN "Unchecked"
         ELSE IF checkedChildren THEN "Checked"
         ELSE "NoData"
    ELSE LET value == CheckStateOf(its, kids[k])
             checked == checkedChildren \/ value = "Checked"
             unchecked == uncheckedChildren \/ value = "Unchecked"
         IN  IF value = "NoData" THEN "NoData"
             ELSE IF value = "PartiallyChecked" THEN "PartiallyChecked"
             ELSE IF checked /\ unchecked THEN "PartiallyChecked"
             ELSE ChildrenCheckState(its, kids, k + 1, checked, unchecked)

\* QTreeWidgetItem::data(0, Qt.CheckStateRole): an auto-tristate item with
\* children shows the state of its children, any other item its own.
CheckStateOf(its, i) ==
    IF Len(its[i].children) > 0 /\ its[i].autoTristate
    THEN ChildrenCheckState(its, its[i].children, 1, FALSE, FALSE)
    ELSE its[i].checkState

RECURSIVE SetCheckState(_, _, _)
RECURSIVE SetChildren(_, _, _, _)

\* The loop of setData over the children that have a check state.
SetChildren(its, kids, k, value) ==
    IF k > Len(kids) THEN its
    ELSE SetChildren(IF CheckStateOf(its, kids[k]) # "NoData"
                     THEN SetCheckState(its, kids[k], value)
                     ELSE its,
                     kids, k + 1, value)

\* QTreeWidgetItem::setData(0, Qt.CheckStateRole, value), value checked or
\* unchecked: an auto-tristate item hands the value down, then stores it.
SetCheckState(its, i, value) ==
    LET below == IF its[i].autoTristate
                 THEN SetChildren(its, its[i].children, 1, value)
                 ELSE its
    IN  [below EXCEPT ![i].checkState = value]

\* A click on the check box of item i (QStyledItemDelegate::editorEvent):
\* only a user-checkable item that has a check state takes it; a checked box
\* becomes unchecked, any other checked.
Click(i) ==
    /\ alive
    /\ items[i].userCheckable
    /\ CheckStateOf(items, i) # "NoData"
    /\ items' = SetCheckState(items, i,
                    IF CheckStateOf(items, i) = "Checked" THEN "Unchecked" ELSE "Checked")
    /\ UNCHANGED <<topLevel, lastInsertedItem, sortingEnabled, worker, workers,
                   queue, alive, err, emitted, processed, droppedIdle>>

-----------------------------------------------------------------------------
(* What the REST API may return: JSON records built from the base records  *)
(* of a family F = [courses, sections, modules, contents, bare].  A module *)
(* record carries its contents list and a section record its modules list; *)
(* in a family with bare = TRUE either list may also be absent.            *)

ContentLists(F, n) == SeqsUpTo(F.contents, n)

\* The module records of at most n records (the module and its contents).
ModuleRecs(F, n) ==
    {m @@ [contents |-> cl] : m \in F.modules, cl \in ContentLists(F, n - 1)}
        \cup (IF F.bare THEN F.modules ELSE {})

\* n - k, or 0 when that is negative.
Minus(n, k) == IF n > k THEN n - k ELSE 0

\* The one element of a singleton set.
The(S) == CHOOSE x \in S : TRUE

\* <<the module lists of at most 0 records, ..., of at most n records>>
RECURSIVE ModuleListsUpTo(_, _)
ModuleListsUpTo(F, n) ==
    IF n = 0 THEN <<{<<>>}>>
    ELSE The({Append(below,
                {<<>>} \cup UNION {{<<m>> \o rest : rest \in below[n - Len(getContent(m))]}
                                     : m \in ModuleRecs(F, n)})
              : below \in {ModuleListsUpTo(F, n - 1)}})

RECURSIVE Weight(_)
Weight(ml) == IF ml = <<>> THEN 0 ELSE 1 + Len(getContent(Head(ml))) + Weight(Tail(ml))

\* The section records of at most n records, given the module lists.
SectionRecs(F, n, moduleLists) ==
    {s @@ [modules |-> ml] : s \in F.sections, ml \in moduleLists[n]}
        \cup (IF F.bare THEN F.sections ELSE {})

RECURSIVE SectionListsUpTo(_, _, _)
SectionListsUpTo(F, n, moduleLists) ==
    IF n = 0 THEN <<{<<>>}>>
    ELSE The({Append(below,
                {<<>>} \cup UNION {{<<s>> \o rest : rest \in below[n - Weight(getModules(s))]}
                                     : s \in SectionRecs(F, n, moduleLists)})
              : below \in {SectionListsUpTo(F, n - 1, moduleLists)}})

\* The section lists of at most n records.
SectionLists(F, n) ==
    The({SectionListsUpTo(F, n, ml)[n + 1] : ml \in {ModuleListsUpTo(F, Minus(n, 1))}})

RECURSIVE SectionsWeight(_)
SectionsWeight(sl) ==
    IF sl = <<>> THEN 0 ELSE 1 + Weight(getModules(Head(sl))) + SectionsWeight(Tail(sl))

\* A catalog: the course records in API order, each with the sections its
\* listing returns (none for a course without id, which cannot be listed).
CatalogEntries(F, n, sectionLists) ==
    UNION {{[course |-> c, sections |-> sl] :
                sl \in IF "id" \in DOMAIN c THEN sectionLists[n] ELSE {<<>>}}
             : c \in F.courses}

RECURSIVE CatalogsUpTo(_, _, _)
CatalogsUpTo(F, n, sectionLists) ==
    IF n = 0 THEN <<{<<>>}>>
    ELSE The({Append(below,
                {<<>>} \cup UNION {{<<e>> \o rest : rest \in below[n - SectionsWeight(e.sections)]}
                                     : e \in CatalogEntries(F, n, sectionLists)})
              : below \in {CatalogsUpTo(F, n - 1, sectionLists)}})

\* The catalogs of at most n records.
Catalogs(F, n) ==
    The({CatalogsUpTo(F, n, sl)[n + 1] :
            sl \in {SectionListsUpTo(F, Minus(n, 1), ml) :
                        ml \in {ModuleListsUpTo(F, Minus(n, 2))}}})

\* A request: falsy (a failed request, whose body is an error report), or
\* truthy with its JSON.
Failed == [ok |-> FALSE, json |-> <<[exception |-> "x"]>>]
Requests(lists) == {Failed} \cup {[ok |-> TRUE, json |-> l] : l \in lists}

-----------------------------------------------------------------------------
(* The depth-first preorder walk of a catalog, as a stream of events.      *)

RECURSIVE ContentEvents(_, _, _)
ContentEvents(cl, path, k) ==
    IF k > Len(cl) THEN <<>>
    ELSE <<LoadedItem(CONTENT, cl[k], 1, Append(path, k))>>
            \o ContentEvents(cl, path, k + 1)

RECURSIVE ModuleEvents(_, _, _)
ModuleEvents(ml, path, j) ==
    IF j > Len(ml) THEN <<>>
    ELSE <<LoadedItem(MODULE_, ml[j], 1, Append(path, j))>>
            \o ContentEvents(IF "contents" \in DOMAIN ml[j] THEN ml[j].contents ELSE <<>>,
                             Append(path, j), 1)
            \o ModuleEvents(ml, path, j + 1)

RECURSIVE SectionEvents(_, _, _)
SectionEvents(sl, path, j) ==
    IF j > Len(sl) THEN <<>>
    ELSE <<LoadedItem(SECTION, sl[j], 1, Append(path, j))>>
            \o ModuleEvents(IF "modules" \in DOMAIN sl[j] THEN sl[j].modules ELSE <<>>,
                            Append(path, j), 1)
            \o SectionEvents(sl, path, j + 1)

RECURSIVE Preorder(_, _)
Preorder(catalog, i) ==
    IF i > Len(catalog) THEN <<>>
    ELSE <<LoadedItem(COURSE, catalog[i].course, 1, <<i>>)>>
            \o SectionEvents(catalog[i].sections, <<i>>, 1)
            \o Preorder(catalog, i + 1)

-----------------------------------------------------------------------------
(* The records of the model.                                               *)

Course(title) == [id |-> 1, shortname |-> title]
Section(title) == [id |-> 10, name |-> title]
Module(title, modname) == [id |-> 100, name |-> title, modname |-> modname]
Content(title, type) == [filename |-> title, fileurl |-> "http://x/f", type |-> type]

\* Every recognised module and content tag, and one unrecognised tag of each.
Modnames == {"folder", "resource", "forum", "attendance", "label", "quiz", "page"}
ContentTags == {"url", "file", "dir"}

\* Well-formed records whose kinds have different ranks: FOLDER (6), QUIZ (9)
\* and MODULE (3); FILE (11) and CONTENT (10).
KindFamily ==
    [courses  |-> {Course("a")},
     sections |-> {Section("a")},
     modules  |-> {Module("a", m) : m \in {"folder", "quiz", "page"}},
     contents |-> {Content("a", t) : t \in {"file", "dir"}},
     bare     |-> FALSE]

\* Well-formed records with every tag.
TagFamily ==
    [courses  |-> {Course("a")},
     sections |-> {Section("a")},
     modules  |-> {Module("a", m) : m \in Modnames},
     contents |-> {Content("a", t) : t \in ContentTags},
     bare     |-> FALSE]

\* Well-formed records with two titles: "&#122;" sorts before "b" as it is
\* written and after it once decoded.
TitleFamily ==
    [courses  |-> {Course(t) : t \in {"b", "&#122;"}},
     sections |-> {Section(t) : t \in {"b", "&#122;"}},
     modules  |-> {Module(t, "forum") : t \in {"b", "&#122;"}},
     contents |-> {Content(t, "url") : t \in {"b", "&#122;"}},
     bare     |-> FALSE]

\* Course records with and without their id.
NoIdFamily ==
    [courses  |-> {Course("a"), [shortname |-> "b"]},
     sections |-> {Section("a")},
     modules  |-> {Module("a", "quiz")},
     contents |-> {Content("a", "file")},
     bare     |-> FALSE]

\* Selectable and other kinds.
SelectFamily ==
    [courses  |-> {Course("a")},
     sections |-> {Section("a")},
     modules  |-> {Module("a", "folder"), Module("a", "forum")},
     contents |-> {Content("a", "file"), Content("a", "url")},
     bare     |-> FALSE]

\* What the API returns in the whole system.
ApiFamily ==
    [courses  |-> {Course("a")},
     sections |-> {Section("a")},
     modules  |-> {Module("a", "folder")},
     contents |-> {Content("a", "file")},
     bare     |-> FALSE]

\* The records the API has returned so far, and those of one more answer.
RECURSIVE Sum(_, _)
Sum(f, n) == IF n = 0 THEN 0 ELSE f[n] + Sum(f, n - 1)
Served ==
    Sum([w \in DOMAIN workers |->
            Len(workers[w].courses)
              + Sum([i \in DOMAIN workers[w].got |-> SectionsWeight(workers[w].got[i])],
                    Len(workers[w].got))],
        Len(workers))
CoursesWithin == [k \in 0..MaxRecords |-> Requests(SeqsUpTo(ApiFamily.courses, k))]
SectionsWithin == [k \in 0..MaxRecords |-> Requests(SectionLists(ApiFamily, k))]
CoursesAnswers == CoursesWithin[MaxRecords - Served]
SectionsAnswers == SectionsWithin[MaxRecords - Served]

ReconCatalogs ==
    Catalogs(KindFamily, MaxCatalog) \cup Catalogs(TagFamily, MaxTagged)
        \cup Catalogs(TitleFamily, MaxCatalog) \cup Catalogs(NoIdFamily, MaxCatalog)

-----------------------------------------------------------------------------
(* The whole system: refresh requests, the fetcher threads, the UI thread. *)

\* MoodleTreeWidget.__init__: an empty tree, no last inserted item, no worker.
Init ==
    /\ items = <<>>
    /\ topLevel = <<>>
    /\ lastInsertedItem = None
    /\ sortingEnabled = FALSE
    /\ worker = None
    /\ workers = <<>>
    /\ queue = <<>>
    /\ alive = TRUE
    /\ err = ""
    /\ emitted = <<>>
    /\ processed = <<>>
    /\ droppedIdle = FALSE

Next ==
    \/ refresh
    \/ \E w \in DOMAIN workers, req \in CoursesAnswers : GetCourses(w, req)
    \/ \E w \in DOMAIN workers, req \in SectionsAnswers : EmitCourse(w, req)
    \/ \E w \in DOMAIN workers : EmitSection(w)
    \/ \E w \in DOMAIN workers : EmitModule(w)
    \/ \E w \in DOMAIN workers : EmitContent(w)
    \/ \E w \in DOMAIN workers : Finish(w)
    \/ DeliverLoadedItem
    \/ DeliverFinished

Spec == Init /\ [][Next]_vars

-----------------------------------------------------------------------------
(* The Reconstructor on its own: a fresh tree widget whose event queue     *)
(* holds the whole stream of one run over a catalog, and then the run's    *)
(* finished signal.                                                        *)

InitRecon ==
    /\ items = <<>>
    /\ topLevel = <<>>
    /\ lastInsertedItem = None
    /\ sortingEnabled = FALSE
    /\ worker = None
    /\ workers = <<>>
    /\ \E catalog \in ReconCatalogs :
            /\ emitted = Preorder(catalog, 1)
            /\ queue = Append(Preorder(catalog, 1), Finished(1))
    /\ alive = TRUE
    /\ err = ""
    /\ processed = <<>>
    /\ droppedIdle = FALSE

NextRecon ==
    \/ DeliverLoadedItem
    \/ DeliverFinished

SpecRecon == InitRecon /\ [][NextRecon]_vars

-----------------------------------------------------------------------------
(* The check boxes on their own: the tree of one run as it is built, and   *)
(* the user clicking.                                                      *)

InitSelect ==
    /\ items = <<>>
    /\ topLevel = <<>>
    /\ lastInsertedItem = None
    /\ sortingEnabled = FALSE
    /\ worker = None
    /\ workers = <<>>
    /\ \E catalog \in Catalogs(SelectFamily, MaxSelect) :
            /\ emitted = Preorder(catalog, 1)
            /\ queue = Preorder(catalog, 1)
    /\ alive = TRUE
    /\ err = ""
    /\ processed = <<>>
    /\ droppedIdle = FALSE

NextSelect ==
    \/ DeliverLoadedItem
    \/ \E i \in ItemIds : Click(i)

SpecSelect == InitSelect /\ [][NextSelect]_vars

-----------------------------------------------------------------------------
(* Reading the tree against the stream it was built from.                  *)

Range(f) == {f[x] : x \in DOMAIN f}

\* The event an item was created from, and its place in the catalog.
EventOf(i) == processed[items[i].src]
PathOf(i) == EventOf(i).path

\* The payload keys the spec requires of each kind of event.
FieldsOf(type) ==
    IF type = COURSE THEN {"id", "shortname"}
    ELSE IF type = SECTION THEN {"id", "name"}
    ELSE IF type = MODULE_ THEN {"id", "name", "modname"}
    ELSE {"filename", "fileurl", "type"}

HasFields(ev) == FieldsOf(ev.type) \subseteq DOMAIN ev.item

\* Every event of the stream carries its required fields.
WellFormedStream == \A k \in DOMAIN emitted : HasFields(emitted[k])

\* Each handled event made exactly one item.
OneItemPerEvent ==
    \A k \in DOMAIN processed : Cardinality({i \in ItemIds : items[i].src = k}) = 1

\* Every item hangs under the item of its parent in the catalog (a course
\* under the root), and is listed there.
SameParents ==
    \A i \in ItemIds :
        IF Len(PathOf(i)) = 1
        THEN items[i].parent = None /\ i \in Range(topLevel)
        ELSE /\ items[i].parent # None
             /\ PathOf(items[i].parent) = Front(PathOf(i))
             /\ EventOf(items[i].parent).run = EventOf(i).run
             /\ i \in Range(items[items[i].parent].children)

\* The children lists hold each child once, under its parent only, and in
\* the order of emission.
SameOrder ==
    \A x \in {None} \cup ItemIds :
        LET kids == Kids(items, topLevel, x)
        IN  /\ \A a \in DOMAIN kids : items[kids[a]].parent = x
            /\ \A a, b \in DOMAIN kids : a < b => items[kids[a]].src < items[kids[b]].src

\* C1: fed a valid depth-first stream whose events carry their required
\* fields, from an empty tree and no last inserted item, the Reconstructor
\* builds the catalog's tree: one item per event handled so far, each under
\* the item of its catalog parent, siblings in emission order (until the
\* finished signal sorts them).
C1_ReconstructsCatalog ==
    (WellFormedStream /\ ~sortingEnabled) => (OneItemPerEvent /\ SameParents /\ SameOrder)

\* A whole stream handled, four levels deep, in which a second content item
\* followed a first: the climb started from a CONTENT item.
C1_Witness ==
    /\ WellFormedStream /\ ~sortingEnabled
    /\ Len(processed) = Len(emitted)
    /\ \E i \in ItemIds : Len(PathOf(i)) = 4 /\ Last(PathOf(i)) = 2

-----------------------------------------------------------------------------
(* Skipping and kind specialisation.                                       *)

\* C5: a COURSE event whose payload lacks the id key is skipped without a
\* crash or a raised error: after it is handled no exception has left the
\* slot and the process is alive.
C5_SkipsCourseWithoutId ==
    (processed # <<>> /\ Last(processed).type = COURSE
        /\ "id" \notin DOMAIN Last(processed).item)
    => (err = "" /\ alive)

\* The kind the spec gives a MODULE or CONTENT event: the specific kind of a
\* recognised tag, the generic kind of any other.
KindFor(ev) ==
    IF ev.type = MODULE_
    THEN IF ev.item.modname = "folder" THEN FOLDER
         ELSE IF ev.item.modname = "resource" THEN RESOURCE
         ELSE IF ev.item.modname = "forum" THEN FORUM
         ELSE IF ev.item.modname = "attendance" THEN ATTENDANCE
         ELSE IF ev.item.modname = "label" THEN LABEL
         ELSE IF ev.item.modname = "quiz" THEN QUIZ
         ELSE MODULE_
    ELSE IF ev.type = CONTENT
    THEN IF ev.item.type = "url" THEN URL
         ELSE IF ev.item.type = "file" THEN FILE
         ELSE CONTENT
    ELSE ev.type

\* C6: in a stream whose events carry their fields, every MODULE and CONTENT
\* event handled made an item, of the specific kind when its tag is a
\* recognised one and of the generic kind (MODULE, CONTENT) when it is not,
\* and no exception was raised.
C6_KindSpecialisation ==
    WellFormedStream =>
        /\ err = ""
        /\ \A k \in DOMAIN processed :
              processed[k].type \in {MODULE_, CONTENT} =>
                 \E i \in ItemIds :
                    items[i].src = k /\ items[i].metadata.type = KindFor(processed[k])

\* Items made from an unrecognised module tag and an unrecognised content
\* tag, beside one made from a recognised tag.
C6_Witness ==
    /\ WellFormedStream
    /\ \E i, j, k \in ItemIds :
          /\ EventOf(i).type = MODULE_ /\ EventOf(i).item.modname = "page"
          /\ items[i].metadata.type = MODULE_
          /\ EventOf(j).type = CONTENT /\ EventOf(j).item.type = "dir"
          /\ items[j].metadata.type = CONTENT
          /\ EventOf(k).type = MODULE_ /\ EventOf(k).item.modname = "quiz"
          /\ items[k].metadata.type = QUIZ

-----------------------------------------------------------------------------
(* Finalize.                                                               *)

\* The display title of an item: its title with character references decoded.
DisplayTitle(i) == IF items[i].metadata.title = "&#122;" THEN "z" ELSE items[i].metadata.title

\* The children of every item, and the top level, ascend by display title.
SortedAtEveryLevel ==
    \A x \in {None} \cup ItemIds :
        LET kids == Kids(items, topLevel, x)
        IN  \A a, b \in DOMAIN kids :
                a < b => TextKey(DisplayTitle(kids[a])) <= TextKey(DisplayTitle(kids[b]))

\* A step that handles a finished signal.
HandlesFinished ==
    queue # <<>> /\ Head(queue).sig = "finished" /\ queue' = Tail(queue)

\* The step keeps every item, its metadata and its parent, and permutes the
\* children lists.
KeepsStructure ==
    /\ Len(items') = Len(items)
    /\ \A i \in ItemIds :
          /\ items'[i].parent = items[i].parent
          /\ items'[i].metadata = items[i].metadata
          /\ Len(items'[i].children) = Len(items[i].children)
          /\ Range(items'[i].children) = Range(items[i].children)
    /\ Len(topLevel') = Len(topLevel)
    /\ Range(topLevel') = Range(topLevel)

\* C8: when onWorkerDone handles the finished signal, the children of every
\* item at every level come out ascending by display title, and the items
\* and their parent/child relationships are those from before the sort.
C8_SortsEveryLevel ==
    [][HandlesFinished => (SortedAtEveryLevel' /\ KeepsStructure)]_vars

\* After onWorkerDone: an item below the top level whose children the sort
\* has put in another order than they were created in.
C8_Witness ==
    /\ sortingEnabled
    /\ \E x \in ItemIds :
          \E a, b \in DOMAIN items[x].children :
              a < b /\ items[x].children[a] > items[x].children[b]

-----------------------------------------------------------------------------
(* Tri-state aggregation.                                                  *)

Selectable == {FILE, FOLDER, RESOURCE}

SelectableChildren(x) ==
    {c \in Range(items[x].children) : items[c].metadata.type \in Selectable}

\* checked if all selectable children are checked, unchecked if all are
\* unchecked, else mixed.
Aggregate(x) ==
    IF \A c \in SelectableChildren(x) : CheckStateOf(items, c) = "Checked"
    THEN "Checked"
    ELSE IF \A c \in SelectableChildren(x) : CheckStateOf(items, c) = "Unchecked"
    THEN "Unchecked"
    ELSE "PartiallyChecked"

\* C7: after any clicks, every selectable item with selectable children
\* shows the aggregate of its selectable children's states, and no item of
\* another kind is user-checkable.
C7_TriStateAggregation ==
    \A x \in ItemIds :
        /\ (items[x].metadata.type \in Selectable /\ SelectableChildren(x) # {})
              => CheckStateOf(items, x) = Aggregate(x)
        /\ items[x].metadata.type \notin Selectable => ~items[x].userCheckable

\* The same for the items all of whose children are selectable, which is how
\* far the aggregation goes in the code.
TriStateOfSelectableOnly ==
    \A x \in ItemIds :
        /\ (items[x].metadata.type \in Selectable /\ SelectableChildren(x) # {}
               /\ SelectableChildren(x) = Range(items[x].children))
              => CheckStateOf(items, x) = Aggregate(x)
        /\ items[x].metadata.type \notin Selectable => ~items[x].userCheckable

\* A FOLDER with three FILE children, two of them checked.
ThreeFilesTwoChecked ==
    \E x \in ItemIds :
        /\ items[x].metadata.type = FOLDER
        /\ Len(items[x].children) = 3
        /\ \A c \in Range(items[x].children) : items[c].metadata.type = FILE
        /\ Cardinality({c \in Range(items[x].children) : items[c].checkState = "Checked"}) = 2
        /\ CheckStateOf(items, x) = "PartiallyChecked"

-----------------------------------------------------------------------------
(* One fetcher thread on its own: refresh has started it, the API answers  *)
(* each listing call with records that can be told apart.                  *)

\* Courses, modules and contents of two titles (sections differ in what
\* they hold), a course without id, sections without a modules list and
\* modules without a contents list.
FetchFamily ==
    [courses  |-> {Course("a"), Course("b"), [shortname |-> "b"]},
     sections |-> {Section("a")},
     modules  |-> {Module(t, "folder") : t \in {"a", "b"}},
     contents |-> {Content(t, "file") : t \in {"a", "b"}},
     bare     |-> TRUE]

FetchCoursesWithin == [k \in 0..MaxFetch |-> Requests(SeqsUpTo(FetchFamily.courses, k))]
FetchSectionsWithin ==
    The({[k \in 0..MaxFetch |-> Requests(table[k + 1])] :
            table \in {SectionListsUpTo(FetchFamily, MaxFetch, ml) :
                          ml \in {ModuleListsUpTo(FetchFamily, Minus(MaxFetch, 1))}}})

InitFetch ==
    /\ items = <<>>
    /\ topLevel = <<>>
    /\ lastInsertedItem = None
    /\ sortingEnabled = FALSE
    /\ worker = 1
    /\ workers = <<NewWorker>>
    /\ queue = <<>>
    /\ alive = TRUE
    /\ err = ""
    /\ emitted = <<>>
    /\ processed = <<>>
    /\ droppedIdle = FALSE

NextFetch ==
    \/ \E req \in FetchCoursesWithin[MaxFetch - Served] : GetCourses(1, req)
    \/ \E req \in FetchSectionsWithin[MaxFetch - Served] : EmitCourse(1, req)
    \/ EmitSection(1)
    \/ EmitModule(1)
    \/ EmitContent(1)
    \/ Finish(1)

SpecFetch == InitFetch /\ [][NextFetch]_vars

-----------------------------------------------------------------------------
(* The stream of one run against the catalog the API returned to it.       *)

\* The events thread w has emitted, in order.
StreamOf(w) ==
    LET OfRun(e) == e.run = w
        s == SelectSeq(emitted, OfRun)
    IN  [k \in DOMAIN s |-> [s[k] EXCEPT !.run = 1]]

\* What the API has returned to thread w: its courses whose sections were
\* asked for, each with the sections returned.
CatalogOf(w) ==
    [i \in DOMAIN workers[w].got |->
        [course |-> workers[w].courses[i], sections |-> workers[w].got[i]]]

\* C4: the stream of a run is the depth-first, left-to-right preorder walk of
\* the catalog returned to it: a prefix of the walk while the thread runs,
\* the whole walk of every course once run has returned.
C4_DepthFirstPreorder ==
    \A w \in DOMAIN workers :
        /\ IsPrefix(StreamOf(w), Preorder(CatalogOf(w), 1))
        /\ workers[w].pc \in {"course", "return", "done"}
              => StreamOf(w) = Preorder(CatalogOf(w), 1)
        /\ workers[w].pc \in {"return", "done"}
              => Len(workers[w].got) = Len(workers[w].courses)

\* A returned run whose stream goes down to a CONTENT event and then on to
\* the next COURSE event.
C4_Witness ==
    /\ workers[1].pc = "done"
    /\ \E k \in DOMAIN emitted :
          /\ k > 1
          /\ emitted[k].type = COURSE
          /\ emitted[k - 1].type = CONTENT

-----------------------------------------------------------------------------
(* Refresh requests and the event queue in the whole system.               *)

\* C2: at most one fetcher thread is running in every reachable state.
C2_AtMostOneActiveRun == Cardinality(Active) <= 1

\* The loadedItem deliveries still queued, in order.
Pending ==
    LET IsLoadedItem(m) == m.sig = "loadedItem"
    IN  SelectSeq(queue, IsLoadedItem)

\* C3: the events onWorkerLoadedItem has handled are a prefix of the events
\* emitted, and the rest are queued in their emitted order, each once.
C3_ProcessedInEmittedOrder ==
    /\ IsPrefix(processed, emitted)
    /\ processed \o Pending = emitted

\* Events of two runs handled, with more still queued.
C3_Witness ==
    /\ Len(processed) >= 2
    /\ Len(Pending) >= 2
    /\ \E j, k \in DOMAIN processed : processed[j].run # processed[k].run

\* C9: a refresh that starts a run leaves an empty tree and no last inserted
\* item behind.
C9_RefreshDiscardsTree ==
    [][worker' # worker => (items' = <<>> /\ topLevel' = <<>> /\ lastInsertedItem' = None)]_vars

\* C10: no refresh requested while no run was active has been dropped.
C10_RefreshWhenIdleStartsRun == ~droppedIdle

-----------------------------------------------------------------------------
(* Failed and empty listings.                                              *)

\* The positions of the walk at or above each loop.
AtCourseLoop == {"course", "return"}
AtSectionLoop == AtCourseLoop \cup {"section"}
AtModuleLoop == AtSectionLoop \cup {"module"}

\* The step of thread w does not go down into a child loop when the listing
\* it asks for failed, cannot be asked for, or is absent from the record.
NoDescent(w) ==
    LET st == workers[w]
    IN  /\ GetCourses(w, Failed)
            => workers'[w].pc = "return" /\ emitted' = emitted
        /\ EmitCourse(w, Failed)
            => workers'[w].pc \in AtCourseLoop /\ Last(workers'[w].got) = <<>>
        /\ (st.pc = "course" /\ workers'[w] # st /\ "id" \notin DOMAIN st.courses[st.ci])
            => workers'[w].pc \in AtCourseLoop /\ Last(workers'[w].got) = <<>>
        /\ (st.pc = "section" /\ workers'[w] # st /\ "modules" \notin DOMAIN st.sections[st.si])
            => workers'[w].pc \in AtSectionLoop
        /\ (st.pc = "module" /\ workers'[w] # st /\ "contents" \notin DOMAIN st.modules[st.mi])
            => workers'[w].pc \in AtModuleLoop

\* The events thread w has emitted at a place of the catalog.
EventsAt(w, path) == {k \in DOMAIN StreamOf(w) : StreamOf(w)[k].path = path}

\* Once run has returned, every course the API listed has its COURSE event,
\* every section listed for a course its SECTION event, and every module of
\* a listed section its MODULE event, whatever was empty before them.
WalkedEverything(w) ==
    LET st == workers[w]
    IN  st.pc \in {"return", "done"} =>
          /\ Len(st.got) = Len(st.courses)
          /\ \A i \in DOMAIN st.courses :
                /\ \E k \in EventsAt(w, <<i>>) : StreamOf(w)[k].item = st.courses[i]
                /\ \A j \in DOMAIN st.got[i] :
                      /\ \E k \in EventsAt(w, <<i, j>>) : StreamOf(w)[k].item = st.got[i][j]
                      /\ \A m \in DOMAIN getModules(st.got[i][j]) :
                            EventsAt(w, <<i, j, m>>) # {}

\* C11: a listing that failed, that cannot be asked for (a course without
\* id) or that is absent (no modules, no contents) counts as empty: the
\* thread emits no child of it and goes on with the next sibling or
\* ancestor, so that everything listed is emitted by the time run returns.
C11_EmptyListingContinues ==
    [][\A w \in DOMAIN workers : NoDescent(w) /\ WalkedEverything(w)']_vars

\* A returned run whose first course got no sections though it has an id,
\* and whose second course was walked down to a module without contents.
C11_Witness ==
    /\ workers[1].pc = "done"
    /\ Len(workers[1].courses) >= 2
    /\ "id" \in DOMAIN workers[1].courses[1]
    /\ workers[1].got[1] = <<>>
    /\ \E k \in DOMAIN emitted :
          /\ emitted[k].path = <<2, 1, 1>>
          /\ "contents" \notin DOMAIN emitted[k].item

-----------------------------------------------------------------------------
(* Two overlapping runs seen from the UI thread: refresh has started a     *)
(* second thread while the first was running, the first has run to its     *)
(* end and then the second, and the event queue holds all they emitted.    *)

\* Two course titles.
OverlapFamily ==
    [courses  |-> {Course("a"), Course("b")},
     sections |-> {Section("a")},
     modules  |-> {Module("a", "folder")},
     contents |-> {Content("a", "file")},
     bare     |-> FALSE]

\* The stream of catalog as emitted by thread w.
StreamBy(w, catalog) ==
    [k \in DOMAIN Preorder(catalog, 1) |-> [Preorder(catalog, 1)[k] EXCEPT !.run = w]]

InitOverlap ==
    /\ items = <<>>
    /\ topLevel = <<>>
    /\ lastInsertedItem = None
    /\ sortingEnabled = FALSE
    /\ worker = None
    /\ workers = <<>>
    /\ \E first \in Catalogs(OverlapFamily, MaxFirst),
          second \in Catalogs(OverlapFamily, MaxSecond) :
            /\ emitted = StreamBy(1, first) \o StreamBy(2, second)
            /\ queue = Append(StreamBy(1, first), Finished(1))
                          \o Append(StreamBy(2, second), Finished(2))
    /\ alive = TRUE
    /\ err = ""
    /\ processed = <<>>
    /\ droppedIdle = FALSE

NextOverlap ==
    \/ DeliverLoadedItem
    \/ DeliverFinished

SpecOverlap == InitOverlap /\ [][NextOverlap]_vars

-----------------------------------------------------------------------------
(* COURSE events.                                                          *)

\* The step hands an event of the given types to onWorkerLoadedItem.
Handles(types) ==
    /\ processed' # processed
    /\ Head(queue).type \in types

\* The handled event made the item numbered Len(items) + 1.
MadeItem == Len(items') = Len(items) + 1

\* The new item is a top-level item, in no children list, and the last
\* inserted item.
NewCourseAtTopLevel ==
    LET n == Len(items) + 1
    IN  /\ MadeItem
        /\ items'[n].metadata.type = COURSE
        /\ items'[n].parent = None
        /\ n \in Range(topLevel')
        /\ \A i \in 1..Len(items') : n \notin Range(items'[i].children)
        /\ lastInsertedItem' = n

\* C12: whatever the last inserted item, a COURSE event with its fields makes
\* an item that is the last top-level item, under no course, and the last
\* inserted item.
C12_CourseIsLastTopLevel ==
    [][(Handles({COURSE}) /\ HasFields(Head(queue)))
          => (NewCourseAtTopLevel /\ Last(topLevel') = Len(items) + 1)]_vars

\* The same but for the place among the top-level items.
CourseIsTopLevel ==
    [][(Handles({COURSE}) /\ HasFields(Head(queue))) => NewCourseAtTopLevel]_vars

\* A COURSE event handled with a last inserted item four levels down.
CourseAfterContent ==
    /\ processed # <<>>
    /\ Last(processed).type = COURSE
    /\ Len(processed) > 1
    /\ processed[Len(processed) - 1].type = CONTENT
    /\ lastInsertedItem = Len(items)
    /\ err = ""

-----------------------------------------------------------------------------
(* The parent climb.                                                       *)

\* The rank of a kind: every specific kind ranks as its general kind.
Rank(kind) ==
    CASE kind = ROOT    -> 0
      [] kind = COURSE  -> 1
      [] kind = SECTION -> 2
      [] kind \in {MODULE_, FORUM, RESOURCE, FOLDER, ATTENDANCE, LABEL, QUIZ} -> 3
      [] kind \in {CONTENT, FILE, URL} -> 4

\* The first item on the way from node to the root whose rank is strictly
\* less than rank; the topmost ancestor when there is none.
RECURSIVE FirstOfLowerRank(_, _)
FirstOfLowerRank(rank, node) ==
    IF Rank(items[node].metadata.type) < rank \/ items[node].parent = None
    THEN node
    ELSE FirstOfLowerRank(rank, items[node].parent)

\* C13: the parent of the item made for a non-COURSE event is the first item
\* of strictly lower rank on the way from the last inserted item to the root.
C13_ClimbStopsAtLowerRank ==
    [][(Handles({SECTION, MODULE_, CONTENT}) /\ lastInsertedItem # None /\ MadeItem)
          => items'[Len(items) + 1].parent
                = FirstOfLowerRank(Rank(Head(queue).type), lastInsertedItem)]_vars

\* A SECTION event handled right after a CONTENT event that made a FILE
\* item: the climb went from the fourth level up to the course.
C13_Witness ==
    /\ Len(processed) > 1
    /\ Last(processed).type = SECTION
    /\ processed[Len(processed) - 1].type = CONTENT
    /\ lastInsertedItem = Len(items)
    /\ items[Len(items) - 1].metadata.type = FILE
    /\ items[items[Len(items)].parent].metadata.type = COURSE

-----------------------------------------------------------------------------
(* The Reconstructor fed the stream of one run over a catalog in which a   *)
(* course record may lack its shortname and a module record its modname.   *)

MalformedFamily ==
    [courses  |-> {Course("a"), [id |-> 1]},
     sections |-> {Section("a")},
     modules  |-> {Module("a", "folder"), [id |-> 100, name |-> "a"]},
     contents |-> {Content("a", "file")},
     bare     |-> FALSE]

InitMalformed ==
    /\ items = <<>>
    /\ topLevel = <<>>
    /\ lastInsertedItem = None
    /\ sortingEnabled = FALSE
    /\ worker = None
    /\ workers = <<>>
    /\ \E catalog \in Catalogs(MalformedFamily, MaxMalformed) :
            /\ emitted = Preorder(catalog, 1)
            /\ queue = Append(Preorder(catalog, 1), Finished(1))
    /\ alive = TRUE
    /\ err = ""
    /\ processed = <<>>
    /\ droppedIdle = FALSE

NextMalformed ==
    \/ DeliverLoadedItem
    \/ DeliverFinished

SpecMalformed == InitMalformed /\ [][NextMalformed]_vars

\* C14: a MODULE event whose payload has no modname key, handled after
\* events that had all their fields, is no error: it makes an item of the
\* generic MODULE kind.
C14_MissingModnameIsGenericModule ==
    (/\ processed # <<>>
     /\ Last(processed).type = MODULE_
     /\ DOMAIN Last(processed).item = {"id", "name", "contents"}
     /\ \A k \in 1..(Len(processed) - 1) : HasFields(processed[k]))
    => /\ err = "" /\ alive
       /\ items # <<>>
       /\ items[Len(items)].src = Len(processed)
       /\ items[Len(items)].metadata.type = MODULE_

\* The top-level item an item hangs under.
RECURSIVE CourseItemOf(_)
CourseItemOf(i) == IF items[i].parent = None THEN i ELSE CourseItemOf(items[i].parent)

-----------------------------------------------------------------------------
(* The finished signal, the ownership of the tree, and the levels, in the  *)
(* whole system.                                                           *)

\* The step hands a finished signal to onWorkerDone.
Finalizes ==
    /\ queue # <<>>
    /\ Head(queue).sig = "finished"
    /\ queue' = Tail(queue)

\* C15: onWorkerDone runs only when every event emitted so far has been
\* handled, so that no item is inserted after it.
C15_FinalizeAfterAllEvents ==
    [][Finalizes => processed = emitted]_vars

\* The same for the events of the run whose finished signal it is.
FinalizeAfterOwnEvents ==
    [][Finalizes => \A k \in DOMAIN Pending : Pending[k].run # Head(queue).run]_vars

\* The tree and the last inserted item.
tree == <<items, topLevel, lastInsertedItem>>

\* C16: a step of a fetcher thread leaves the tree and the last inserted
\* item as they are; they change only when the UI thread takes a delivery
\* off its queue and runs onWorkerLoadedItem or onWorkerDone.
C16_OnlyHandlersChangeTree ==
    [][/\ (workers' # workers \/ emitted' # emitted) => tree' = tree
       /\ tree' # tree => (queue # <<>> /\ queue' = Tail(queue))]_vars

\* A thread has emitted a CONTENT event, and run to its end, while the tree
\* held items and had a last inserted item.
C16_Witness ==
    /\ items # <<>>
    /\ lastInsertedItem # None
    /\ \E w \in DOMAIN workers : workers[w].pc = "done"
    /\ \E k \in DOMAIN Pending : Pending[k].type = CONTENT

\* The kinds of each level.
KindsOfLevel ==
    <<{COURSE}, {SECTION},
      {MODULE_, FORUM, RESOURCE, FOLDER, ATTENDANCE, LABEL, QUIZ},
      {CONTENT, FILE, URL}>>

LevelOf(kind) == CHOOSE l \in 1..4 : kind \in KindsOfLevel[l]

\* C18: COURSE items are top-level items, and the parent of every other
\* item is of a kind of the level above its own.
C18_EachItemAtItsLevel ==
    \A i \in ItemIds :
        IF items[i].metadata.type = COURSE
        THEN items[i].parent = None /\ i \in Range(topLevel)
        ELSE /\ items[i].parent # None
             /\ LevelOf(items[items[i].parent].metadata.type)
                    = LevelOf(items[i].metadata.type) - 1

-----------------------------------------------------------------------------
(* One run to its end: the fetcher thread and the UI thread's event loop,  *)
(* both scheduled fairly.                                                  *)

\* Well-formed records, and a course without id.
LiveFamily ==
    [courses  |-> {Course("a"), [shortname |-> "b"]},
     sections |-> {Section("a")},
     modules  |-> {Module("a", "folder")},
     contents |-> {Content("a", "file")},
     bare     |-> FALSE]

LiveCoursesWithin == [k \in 0..MaxLive |-> Requests(SeqsUpTo(LiveFamily.courses, k))]
LiveSectionsWithin == [k \in 0..MaxLive |-> Requests(SectionLists(LiveFamily, k))]

\* A step of the fetcher thread.
RunStep ==
    \/ \E req \in LiveCoursesWithin[MaxLive - Served] : GetCourses(1, req)
    \/ \E req \in LiveSectionsWithin[MaxLive - Served] : EmitCourse(1, req)
    \/ EmitSection(1)
    \/ EmitModule(1)
    \/ EmitContent(1)
    \/ Finish(1)

NextLive ==
    \/ RunStep
    \/ DeliverLoadedItem
    \/ DeliverFinished

\* The operating system keeps scheduling a runnable thread, and the event
\* loop keeps taking deliveries off a queue that is not empty.
SpecLive ==
    /\ InitFetch /\ [][NextLive]_vars
    /\ WF_vars(RunStep)
    /\ WF_vars(DeliverLoadedItem)
    /\ WF_vars(DeliverFinished)

\* run has returned, every event it emitted has been handled, and
\* onWorkerDone has run.
RunCompleted ==
    /\ workers[1].pc = "done"
    /\ processed = emitted
    /\ queue = <<>>
    /\ sortingEnabled

\* C17: the run started by refresh returns after finitely many events, each
\* of them is eventually handled, and onWorkerDone eventually runs.
C17_RunCompletes == <>RunCompleted

\* The same as long as the process lives.
RunCompletesUnlessAborted == <>(RunCompleted \/ ~alive)

=============================================================================
